---------------------------- MODULE Spec2Model ----------------------------
(***************************************************************************)
(* A model of the Cloud-AI prediction stack: the housing feature encoder   *)
(* (ml_service/predict.py and the dashboard's make_features in app.py),    *)
(* the Flask request handlers (ml_service/server.py), the loading of the   *)
(* artifacts behind get_predictor, and the dashboards' electricity         *)
(* forecasts (electricity_app.py, eletricity_app.py).                      *)
(*                                                                         *)
(* The estimator and the target encoder are opaque objects loaded from a   *)
(* pickle: what they return, and whether they raise, is a nondeterministic *)
(* input of every action that calls them.                                  *)
(***************************************************************************)
EXTENDS Integers, Sequences, FiniteSets, TLC

VARIABLES
    disk,        \* the artifacts under the model base path
    predictor,   \* the ModelPredictor instance (predict.py:29-37)
    enc,         \* the last direct call of the encoder: path, arguments, outcome
    request,     \* the last HTTP request the server received
    response,    \* the server's answer to it
    fc,          \* the dashboard's generate_forecast call in progress
    local,       \* the forecast of the local dashboard (eletricity_app.py)
    proc,        \* the service process: the global predictor and its callers
    info         \* the server's answer to the last GET of a status endpoint

vars == <<disk, predictor, enc, request, response, fc, local, proc, info>>

(***************************************************************************)
(* Bounds of the model.                                                    *)
(***************************************************************************)
\* longest expected-column list drawn from ShortColumnNames
MaxCols == 2
\* longest forecast horizon the dashboard is asked for
MaxHours == 3
\* threads that call get_predictor
MaxThreads == 2
\* calls of the predictor's methods in one behaviour
MaxCalls == 3

(***************************************************************************)
(* One-row DataFrames: an ordered sequence of named cells.                 *)
(***************************************************************************)
Cell(n, v) == [name |-> n, isText |-> FALSE, text |-> "", num |-> v]

TextCell(n, s) == [name |-> n, isText |-> TRUE, text |-> s, num |-> 0]

Columns(row) == {row[i].name : i \in 1..Len(row)}

ColumnNames(row) == [i \in 1..Len(row) |-> row[i].name]

CellOf(row, c) == row[CHOOSE i \in 1..Len(row) : row[i].name = c]

\* row[c] = v: overwrite the column in place, or append it as the last one
SetColumn(row, c, v) ==
    IF c \in Columns(row)
    THEN [i \in 1..Len(row) |-> IF row[i].name = c THEN Cell(c, v) ELSE row[i]]
    ELSE Append(row, Cell(c, v))

\* row.drop(columns=cols)
DropColumns(row, cols) == SelectSeq(row, LAMBDA c : c.name \notin cols)

\* pd.get_dummies(row, columns=cols, drop_first=False) on ONE row: the columns
\* that are not encoded keep their order, then one indicator per encoded
\* column, named <column>_<value of the row>, holding 1 (True)
RECURSIVE Dummies(_, _)
Dummies(row, cols) ==
    IF cols = <<>> THEN <<>>
    ELSE <<Cell(Head(cols) \o "_" \o CellOf(row, Head(cols)).text, 1)>>
         \o Dummies(row, Tail(cols))

GetDummies(row, cols) ==
    DropColumns(row, {cols[i] : i \in 1..Len(cols)}) \o Dummies(row, cols)

\* for col in features: if col not in row.columns: row[col] = 0
RECURSIVE AddMissing(_, _)
AddMissing(row, cols) ==
    IF cols = <<>> THEN row
    ELSE AddMissing(IF Head(cols) \in Columns(row) THEN row
                    ELSE SetColumn(row, Head(cols), 0),
                    Tail(cols))

\* row[features]: exactly these columns, in this order
SelectColumns(row, cols) == [i \in 1..Len(cols) |-> CellOf(row, cols[i])]

\* a plausible bug: the missing columns are added but the row is never
\* reindexed to the expected list
AlignNoSelect(row, features) ==
    IF features.present THEN AddMissing(row, features.cols) ELSE row

\* Align to training features: add every missing column as 0, then select
\* exactly the expected columns in their order; nothing when the bundle has
\* no feature_names
Align(row, features) ==
    IF features.present
    THEN SelectColumns(AddMissing(row, features.cols), features.cols)
    ELSE row

\* cols_to_drop = ["type_D", "is_new_N", "duration_F"]
cols_to_drop == {"type_D", "is_new_N", "duration_F"}

\* a plausible bug: the reference categories are kept
DropReferenceNone(row) == row

DropReference(row) == DropColumns(row, cols_to_drop \cap Columns(row))

\* quarter = (month - 1) // 3 + 1
Quarter(month) == ((month - 1) \div 3) + 1

\* str.upper() on the sample strings of the model
Upper(s) ==
    CASE s = "kent" -> "KENT"
      [] s = "Kent " -> "KENT "
      [] s = "Atlantis" -> "ATLANTIS"
      [] OTHER -> s

(***************************************************************************)
(* The target encoder: an opaque object with transform().  A strict        *)
(* encoder raises on a county it has not seen, a lenient one returns its   *)
(* prior for it, a broken one raises on every call.                        *)
(***************************************************************************)
NoEncoder == [present |-> FALSE, kind |-> "none", prior |-> 0]

Encoders ==
    {[present |-> TRUE, kind |-> k, prior |-> 11] : k \in {"strict", "lenient", "broken"}}

\* the counties the encoder was fitted on, with their encoded value
EncoderTable == ("KENT" :> 12) @@ ("SURREY" :> 13) @@ ("GREATER LONDON" :> 14)

Seen(county) == county \in DOMAIN EncoderTable

\* housing_encoder.transform(row[["county"]])["county"]
EncoderTransform(e, county) ==
    CASE e.kind = "broken" -> [raised |-> TRUE, value |-> 0]
      [] Seen(county) -> [raised |-> FALSE, value |-> EncoderTable[county]]
      [] e.kind = "strict" -> [raised |-> TRUE, value |-> 0]
      [] OTHER -> [raised |-> FALSE, value |-> e.prior]

\* a plausible bug: no except branch, a failed transform propagates
CountyEncodedNoFallback(e, county) ==
    IF e.present
    THEN EncoderTransform(e, county)
    ELSE [raised |-> FALSE, value |-> 0]

\* Target encode county: transform inside try/except, 0.0 when it raises and
\* 0.0 when there is no encoder
CountyEncoded(e, county) ==
    IF e.present
    THEN LET t == EncoderTransform(e, county)
         IN  IF t.raised THEN [raised |-> FALSE, value |-> 0] ELSE t
    ELSE [raised |-> FALSE, value |-> 0]

(***************************************************************************)
(* Python values that reach the service as JSON: a string, a number or     *)
(* null.  Only strings have upper(), only numbers compare with numbers.    *)
(***************************************************************************)
JStr(s) == [t |-> "str", s |-> s, n |-> 0]

JNum(n) == [t |-> "num", s |-> "", n |-> n]

JNull == [t |-> "null", s |-> "", n |-> 0]

(***************************************************************************)
(* The artifacts on disk and the predictor built from them.                *)
(***************************************************************************)
NoFeatures == [present |-> FALSE, cols |-> <<>>]

NoMetrics == [has_mae |-> FALSE, test_mae |-> 0]

\* the column list of the training pipeline: the numeric columns, the encoded
\* county and the indicators left after the reference levels were dropped
TrainingColumns ==
    <<"year", "month", "quarter", "county_encoded", "type_F", "type_O", "type_S",
      "type_T", "is_new_Y", "duration_L", "duration_U">>

\* ModelPredictor.__init__: every attribute before _load_models runs
EmptyPredictor ==
    [housing_model      |-> [loaded |-> FALSE],
     housing_encoder    |-> NoEncoder,
     housing_features   |-> NoFeatures,
     housing_metrics    |-> NoMetrics,
     housing_model_name |-> "Unknown",
     electricity_model  |-> [loaded |-> FALSE]]

\* best_model.pkl as a mapping: keys is the set of keys it holds
HousingBundle(keys, e, f, m, name) ==
    [exists |-> TRUE, isDict |-> TRUE, keys |-> keys, target_encoder |-> e,
     feature_names |-> f, metrics |-> m, model_name |-> name]

\* best_model.pkl holding a bare estimator
RawEstimator ==
    [exists |-> TRUE, isDict |-> FALSE, keys |-> {}, target_encoder |-> NoEncoder,
     feature_names |-> NoFeatures, metrics |-> NoMetrics, model_name |-> "Unknown"]

NoFile ==
    [exists |-> FALSE, isDict |-> FALSE, keys |-> {}, target_encoder |-> NoEncoder,
     feature_names |-> NoFeatures, metrics |-> NoMetrics, model_name |-> "Unknown"]

\* bundle.get(key), bundle.get(key, default)
BundleGet(b, key, value, default) == IF key \in b.keys THEN value ELSE default

\* the predictor once a mapping was read and the electricity file looked for
Loaded(housing, elecExists, hasModel) ==
    [housing_model      |-> [loaded |-> hasModel],
     housing_encoder    |->
         BundleGet(housing, "target_encoder", housing.target_encoder, NoEncoder),
     housing_features   |->
         BundleGet(housing, "feature_names", housing.feature_names, NoFeatures),
     housing_metrics    |-> BundleGet(housing, "metrics", housing.metrics, NoMetrics),
     housing_model_name |-> BundleGet(housing, "model_name", housing.model_name, "Unknown"),
     electricity_model  |-> [loaded |-> elecExists]]

\* a plausible bug: bundle.get("model") in place of bundle["model"], so a
\* mapping without the key loads with housing_model None
LoadModelsDefaultsModel(housing, elecExists) ==
    CASE ~housing.exists ->
             [raised |-> "",
              predictor |-> [EmptyPredictor EXCEPT !.electricity_model.loaded = elecExists]]
      [] housing.exists /\ ~housing.isDict ->
             [raised |-> "TypeError", predictor |-> EmptyPredictor]
      [] OTHER ->
             [raised |-> "",
              predictor |-> Loaded(housing, elecExists, "model" \in housing.keys)]

\* a plausible bug: a bare estimator is unwrapped and used as the model
LoadModelsUnwrapsRaw(housing, elecExists) ==
    CASE ~housing.exists ->
             [raised |-> "",
              predictor |-> [EmptyPredictor EXCEPT !.electricity_model.loaded = elecExists]]
      [] housing.exists /\ housing.isDict /\ "model" \notin housing.keys ->
             [raised |-> "KeyError", predictor |-> EmptyPredictor]
      [] OTHER -> [raised |-> "", predictor |-> Loaded(housing, elecExists, TRUE)]

\* ModelPredictor._load_models: the housing bundle, then the optional
\* electricity model; any exception is logged and raised again
load_models(housing, elecExists) ==
    LET p0 == EmptyPredictor
        p1 == IF ~housing.exists THEN p0
              ELSE [p0 EXCEPT
                      !.housing_model = [loaded |-> TRUE],
                      !.housing_encoder =
                          BundleGet(housing, "target_encoder", housing.target_encoder, NoEncoder),
                      !.housing_features =
                          BundleGet(housing, "feature_names", housing.feature_names, NoFeatures),
                      !.housing_metrics =
                          BundleGet(housing, "metrics", housing.metrics, NoMetrics),
                      !.housing_model_name =
                          BundleGet(housing, "model_name", housing.model_name, "Unknown")]
        p2 == [p1 EXCEPT !.electricity_model = [loaded |-> elecExists]]
    IN  CASE housing.exists /\ ~housing.isDict -> [raised |-> "TypeError", predictor |-> p0]
          [] housing.exists /\ "model" \notin housing.keys ->
                 [raised |-> "KeyError", predictor |-> p0]
          [] OTHER -> [raised |-> "", predictor |-> p2]

(***************************************************************************)
(* The estimator: predict(row)[0] returns a log-scale value or raises.     *)
(* Log values are in thousandths, money in pence.                          *)
(***************************************************************************)
\* np.expm1 at the sample log outputs, rounded to the penny as round(x, 2)
\* does: expm1(-1) = -0.63, expm1(0.001) = 0.0010005, expm1(0.005) = 0.0050125,
\* expm1(7) = 1095.63, expm1(12) = 162753.79, expm1(13) = 442412.39
Expm1Table ==
    (-1000 :> -63) @@ (0 :> 0) @@ (1 :> 0) @@ (5 :> 1) @@ (7000 :> 109563)
    @@ (12000 :> 16275379) @@ (13000 :> 44241239)

LogOutputs == {-1000, 0, 1, 5, 12000}

\* np.exp in place of np.expm1: one pound too much
ExpInsteadOfExpm1(y) == Expm1Table[y] + 100

\* np.expm1(y_pred_log)
expm1(y) == Expm1Table[y]

Returned(y) == [raised |-> "", msg |-> "", y |-> y]

\* an exception of class e; its text is the estimator's own
Raised(e) == [raised |-> e, msg |-> e \o " raised by the estimator", y |-> 0]

\* what housing_model.predict can do: return a value, raise ValueError (a
\* shape mismatch) or raise another exception (an unusable estimator)
ModelOutcomes ==
    {Returned(y) : y \in LogOutputs} \cup {Raised("ValueError"), Raised("AttributeError")}

\* a plausible bug: min where max is meant
MaxAsMin(a, b) == IF a <= b THEN a ELSE b

\* a plausible bug: the floor of the lower bound left out
MaxIgnoresFloor(a, b) == b

\* max(1000, predicted_price - 2 * mae)
Max(a, b) == IF a >= b THEN a ELSE b

\* mae_default = 122353
mae_default == 122353

(***************************************************************************)
(* Housing prediction: ModelPredictor.predict_housing (predict.py) and the *)
(* dashboard's make_features and prediction block (app.py).                *)
(***************************************************************************)
HousingArgs(property_type, is_new, duration, county, year, month) ==
    [property_type |-> property_type, is_new |-> is_new, duration |-> duration,
     county |-> county, year |-> year, month |-> month]

NoArgs == HousingArgs("", "", "", JNull, 0, 0)

\* the outcome of a call: the exception it raised ("" when it returned), the
\* frame after the county step, the row handed to the estimator, the result
CallResult(raised, message, modelCalled, afterCounty, row, price, y, lower, upper, name, used) ==
    [raised |-> raised, message |-> message, modelCalled |-> modelCalled,
     afterCounty |-> afterCounty,
     row |-> row, price |-> price, price_log |-> y, confidence_lower |-> lower,
     confidence_upper |-> upper, model |-> name, features_used |-> used]

Failure(e, message, modelCalled, afterCounty, row) ==
    CallResult(e, message, modelCalled, afterCounty, row, 0, 0, 0, 0, "", 0)

NoResult == Failure("none", "", FALSE, <<>>, <<>>)

\* pd.DataFrame([{...}]): the one-row frame, county upper-cased
HousingFrame(a, quarter) ==
    <<TextCell("type", a.property_type), TextCell("is_new", a.is_new),
      TextCell("duration", a.duration), TextCell("county", Upper(a.county.s)),
      Cell("year", a.year), Cell("month", a.month), Cell("quarter", quarter)>>

\* the county step: county_encoded is set, then the raw county is dropped
EncodeCounty(row, e) ==
    LET t == CountyEncoded(e, CellOf(row, "county").text)
    IN  [raised |-> t.raised,
         row |-> DropColumns(SetColumn(row, "county_encoded", t.value), {"county"})]

\* a plausible bug: get_dummies(..., drop_first=True), which on a one-row
\* frame drops the only indicator of every encoded column
ExpandCategoricalsDropFirst(row) ==
    DropReference(DropColumns(row, {"type", "is_new", "duration"}))

\* One-hot encode the categorical features, then drop the reference categories
ExpandCategoricals(row) ==
    DropReference(GetDummies(row, <<"type", "is_new", "duration">>))

\* predict.py:100-143: the row predict_housing hands to the estimator
housing_row(p, a) ==
    LET quarter == Quarter(a.month)
        c == EncodeCounty(HousingFrame(a, quarter), p.housing_encoder)
    IN  [raised |-> c.raised, afterCounty |-> c.row,
         row |-> Align(ExpandCategoricals(c.row), p.housing_features)]

\* a plausible bug: no check that the housing model was loaded
PredictHousingUnguarded(p, a, out) ==
    LET r == housing_row(p, a)
    IN  IF out.raised # "" THEN Failure(out.raised, out.msg, TRUE, r.afterCounty, r.row)
        ELSE CallResult("", "", TRUE, r.afterCounty, r.row, expm1(out.y), out.y,
                        Max(1000 * 100, expm1(out.y) - 2 * mae_default * 100),
                        expm1(out.y) + 2 * mae_default * 100, p.housing_model_name, 0)

\* ModelPredictor.predict_housing; out is what housing_model.predict does
predict_housing(p, a, out) ==
    IF ~p.housing_model.loaded
    THEN Failure("ValueError", "Housing model not loaded", FALSE, <<>>, <<>>)
    ELSE IF a.county.t # "str"
    THEN Failure("AttributeError", "object has no attribute 'upper'", FALSE, <<>>, <<>>)
    ELSE LET r == housing_row(p, a)
             predicted_price == expm1(out.y)
             mae == IF p.housing_metrics.has_mae THEN p.housing_metrics.test_mae
                    ELSE mae_default * 100
         IN  IF r.raised THEN Failure("Exception", "transform failed", FALSE, r.afterCounty, <<>>)
             ELSE IF out.raised # ""
             THEN Failure(out.raised, out.msg, TRUE, r.afterCounty, r.row)
             ELSE CallResult("", "", TRUE, r.afterCounty, r.row, predicted_price, out.y,
                             Max(1000 * 100, predicted_price - 2 * mae),
                             predicted_price + 2 * mae,
                             p.housing_model_name,
                             IF p.housing_features.present
                             THEN Len(p.housing_features.cols) ELSE 0)

\* app.py:76-81: the dashboard's globals, read from the bundle load_model
\* accepted (a mapping with a 'model' key)
DashboardGlobals(housing) ==
    [target_encoder |-> BundleGet(housing, "target_encoder", housing.target_encoder, NoEncoder),
     feature_names  |-> BundleGet(housing, "feature_names", housing.feature_names, NoFeatures),
     metrics        |-> BundleGet(housing, "metrics", housing.metrics, NoMetrics),
     model_name     |-> BundleGet(housing, "model_name", housing.model_name, "Unknown")]

\* app.py:149-189
make_features(g, a, quarter) ==
    LET c == EncodeCounty(HousingFrame(a, quarter), g.target_encoder)
    IN  [raised |-> c.raised, afterCounty |-> c.row,
         row |-> Align(ExpandCategoricals(c.row), g.feature_names)]

\* app.py:262-291 and its except branch: the dashboard's prediction block
dashboard_predict(g, a, out) ==
    LET quarter == Quarter(a.month)
        r == make_features(g, a, quarter)
        predicted_price == expm1(out.y)
        mae == IF g.metrics.has_mae THEN g.metrics.test_mae ELSE 50000 * 100
    IN  IF r.raised THEN Failure("Exception", "transform failed", FALSE, r.afterCounty, <<>>)
        ELSE IF out.raised # ""
             THEN Failure(out.raised, out.msg, TRUE, r.afterCounty, r.row)
        ELSE CallResult("", "", TRUE, r.afterCounty, r.row, predicted_price, out.y,
                        Max(1000 * 100, predicted_price - 2 * mae),
                        predicted_price + 2 * mae, g.model_name, 0)

(***************************************************************************)
(* Electricity prediction: ModelPredictor.predict_electricity.  Calendar   *)
(* arithmetic follows Python's datetime: proleptic Gregorian ordinals,     *)
(* weekday() with Monday = 0, isocalendar() weeks.                         *)
(***************************************************************************)
DateTime(y, mo, d, h) == [year |-> y, month |-> mo, day |-> d, hour |-> h]

NoDateTime == DateTime(0, 0, 0, 0)

IsLeap(y) == (y % 4 = 0 /\ y % 100 # 0) \/ y % 400 = 0

DaysInMonth(y, mo) ==
    CASE mo \in {4, 6, 9, 11} -> 30
      [] mo = 2 -> IF IsLeap(y) THEN 29 ELSE 28
      [] OTHER -> 31

RECURSIVE DaysBeforeMonth(_, _)
DaysBeforeMonth(y, mo) ==
    IF mo <= 1 THEN 0 ELSE DaysBeforeMonth(y, mo - 1) + DaysInMonth(y, mo - 1)

DaysBeforeYear(y) ==
    (y - 1) * 365 + ((y - 1) \div 4) - ((y - 1) \div 100) + ((y - 1) \div 400)

\* date.toordinal()
ToOrdinal(y, mo, d) == DaysBeforeYear(y) + DaysBeforeMonth(y, mo) + d

\* hours since the start of the calendar
ToHours(dt) == ToOrdinal(dt.year, dt.month, dt.day) * 24 + dt.hour

\* datetime.weekday(): Monday is 0
Weekday(dt) == (ToOrdinal(dt.year, dt.month, dt.day) + 6) % 7

IsoWeek1Monday(y) ==
    LET firstday == ToOrdinal(y, 1, 1)
        firstweekday == (firstday + 6) % 7
    IN  IF firstweekday > 3 THEN firstday - firstweekday + 7 ELSE firstday - firstweekday

\* datetime.isocalendar()[1]
IsoWeek(dt) ==
    LET today == ToOrdinal(dt.year, dt.month, dt.day)
        week == (today - IsoWeek1Monday(dt.year)) \div 7
    IN  IF week < 0 THEN ((today - IsoWeek1Monday(dt.year - 1)) \div 7) + 1
        ELSE IF week >= 52 /\ today >= IsoWeek1Monday(dt.year + 1) THEN 1
        ELSE week + 1

\* datetime(year, month, day, hour) raises ValueError outside these ranges
ValidDateTime(y, mo, d, h) ==
    /\ y \in 1..9999
    /\ mo \in 1..12
    /\ d \in 1..DaysInMonth(y, mo)
    /\ h \in 0..23

\* a plausible bug: the hour wraps without carrying into the day
AddHourNoCarry(dt) == [dt EXCEPT !.hour = (dt.hour + 1) % 24]

\* dt + timedelta(hours=1)
AddHour(dt) ==
    IF dt.hour < 23 THEN [dt EXCEPT !.hour = dt.hour + 1]
    ELSE IF dt.day < DaysInMonth(dt.year, dt.month)
         THEN DateTime(dt.year, dt.month, dt.day + 1, 0)
    ELSE IF dt.month < 12 THEN DateTime(dt.year, dt.month + 1, 1, 0)
    ELSE DateTime(dt.year + 1, 1, 1, 0)

\* a plausible bug: lag_1 is left at 0 instead of the typical demand
ElectricityFeaturesLagZero(dt) ==
    [hour |-> dt.hour, day_of_week |-> Weekday(dt), month |-> dt.month,
     week |-> IsoWeek(dt), is_weekend |-> IF Weekday(dt) >= 5 THEN 1 ELSE 0,
     lag_1 |-> 0, lag_24 |-> 35000, lag_168 |-> 35000,
     roll_24 |-> 35000, roll_168 |-> 35000]

\* a plausible bug: lag_1 taken from the demand the process predicted last
ElectricityFeaturesFromLast(dt) ==
    [hour |-> dt.hour, day_of_week |-> Weekday(dt), month |-> dt.month,
     week |-> IsoWeek(dt), is_weekend |-> IF Weekday(dt) >= 5 THEN 1 ELSE 0,
     lag_1 |-> IF proc.last.electricity.raised = ""
               THEN proc.last.electricity.demand_mw \div 100 ELSE 35000,
     lag_24 |-> 35000, lag_168 |-> 35000, roll_24 |-> 35000, roll_168 |-> 35000]

\* the one-row feature frame of predict_electricity: calendar features of the
\* timestamp, and the typical UK demand in MW for every lag and rolling mean
ElectricityFeatures(dt) ==
    [hour |-> dt.hour, day_of_week |-> Weekday(dt), month |-> dt.month,
     week |-> IsoWeek(dt), is_weekend |-> IF Weekday(dt) >= 5 THEN 1 ELSE 0,
     lag_1 |-> 35000, lag_24 |-> 35000, lag_168 |-> 35000,
     roll_24 |-> 35000, roll_168 |-> 35000]

NoElecFeatures ==
    [hour |-> 0, day_of_week |-> 0, month |-> 0, week |-> 0, is_weekend |-> 0,
     lag_1 |-> 0, lag_24 |-> 0, lag_168 |-> 0, roll_24 |-> 0, roll_168 |-> 0]

ElecResult(raised, message, modelCalled, features, demand, dt) ==
    [raised |-> raised, message |-> message, modelCalled |-> modelCalled,
     features |-> features, demand_mw |-> demand, datetime |-> dt,
     model |-> IF raised = "" THEN "PyCaret Regression" ELSE ""]

NoElecResult == ElecResult("none", "", FALSE, NoElecFeatures, 0, NoDateTime)

\* ModelPredictor.predict_electricity; out is what electricity_model.predict
\* does, its value in hundredths of a MW
predict_electricity(p, year, month, day, hour, out) ==
    IF ~p.electricity_model.loaded
    THEN ElecResult("ValueError", "Electricity model not loaded", FALSE,
                    NoElecFeatures, 0, NoDateTime)
    ELSE IF ~ValidDateTime(year, month, day, hour)
    THEN ElecResult("ValueError", "day is out of range for month", FALSE,
                    NoElecFeatures, 0, NoDateTime)
    ELSE LET dt == DateTime(year, month, day, hour)
             features_df == ElectricityFeatures(dt)
         IN  IF out.raised # ""
             THEN ElecResult(out.raised, out.msg, TRUE, features_df, 0, NoDateTime)
             ELSE ElecResult("", "", TRUE, features_df, out.y, dt)

\* what electricity_model.predict can do
ElecOutcomes ==
    {Returned(3120055), Returned(4187310), Raised("ValueError"), Raised("KeyError")}

(***************************************************************************)
(* The Flask handlers (server.py).  A request body is what get_json()      *)
(* yields: a JSON object, null, an array, a number, or nothing usable      *)
(* ("absent": no body, a wrong content type or malformed JSON, for which   *)
(* get_json raises inside the handler's try block).                        *)
(***************************************************************************)
JAbsent == [t |-> "absent", s |-> "", n |-> 0]

FieldNames == {"property_type", "is_new", "duration", "county", "year", "month", "day", "hour"}

NoFields == [f \in FieldNames |-> JAbsent]

Body(kind, fields) == [kind |-> kind, fields |-> fields]

Request(endpoint, data) == [endpoint |-> endpoint, data |-> data]

NoRequest == Request("none", Body("absent", NoFields))

\* field in data: a key of the object; nothing is in an empty array; null and
\* a number are not iterable and get_json raised for an absent body
Iterable(data) == data.kind \in {"object", "array", "string"}

Has(data, f) == data.kind = "object" /\ data.fields[f].t # "absent"

RECURSIVE Join(_, _)
\* sep.join(items)
Join(items, sep) ==
    IF items = <<>> THEN ""
    ELSE IF Len(items) = 1 THEN items[1]
    ELSE items[1] \o sep \o Join(Tail(items), sep)

Response(status, keys, error, required, details, housing, electricity, predictorCalled) ==
    [status |-> status, keys |-> keys, error |-> error, required_fields |-> required,
     details |-> details, housing |-> housing, electricity |-> electricity,
     predictorCalled |-> predictorCalled]

NoResponse == Response(0, {}, "", <<>>, "", NoResult, NoElecResult, FALSE)

\* a 400 with an error message, sent before the predictor is called
BadRequest(error) ==
    Response(400, {"error"}, error, <<>>, "", NoResult, NoElecResult, FALSE)

\* a plausible bug: only the first missing field is reported
MissingFieldsFirstOnly(data, required) ==
    LET missing == SelectSeq(required, LAMBDA f : ~Has(data, f))
    IN  IF missing = <<>> THEN <<>> ELSE <<missing[1]>>

\* missing_fields = [field for field in required_fields if field not in data]
MissingFields(data, required) == SelectSeq(required, LAMBDA f : ~Has(data, f))

\* the 400 that lists the missing fields
MissingResponse(missing, required) ==
    Response(400, {"error", "required_fields"},
             "Missing required fields: " \o Join(missing, ", "),
             required, "", NoResult, NoElecResult, FALSE)

\* lo <= value <= hi on a JSON value: a TypeError unless it is a number
InRange(v, lo, hi) ==
    IF v.t # "num" THEN "TypeError"
    ELSE IF lo <= v.n /\ v.n <= hi THEN "ok" ELSE "out"

housing_required_fields == <<"property_type", "is_new", "duration", "county", "year", "month">>

valid_types == <<"D", "S", "T", "F", "O">>

valid_durations == <<"F", "L", "U">>

Elements(seq) == {seq[i] : i \in 1..Len(seq)}

\* value in list_of_strings
InList(v, list) == v.t = "str" /\ v.s \in Elements(list)

Verdict(kind, error) == [kind |-> kind, error |-> error]

\* a plausible bug: the month check is left out
HousingValidationNoMonth(data) ==
    LET f == data.fields
    IN  IF ~InList(f["property_type"], valid_types)
        THEN Verdict("invalid", "Invalid property_type. Must be one of: "
                                \o Join(valid_types, ", "))
        ELSE IF ~InList(f["is_new"], <<"Y", "N">>)
        THEN Verdict("invalid", "Invalid is_new. Must be 'Y' or 'N'")
        ELSE IF ~InList(f["duration"], valid_durations)
        THEN Verdict("invalid", "Invalid duration. Must be one of: "
                                \o Join(valid_durations, ", "))
        ELSE IF InRange(f["year"], 1995, 2025) = "TypeError" THEN Verdict("TypeError", "")
        ELSE IF InRange(f["year"], 1995, 2025) = "out"
        THEN Verdict("invalid", "Year must be between 1995 and 2025")
        ELSE Verdict("ok", "")

\* server.py:73-103: the checks of /predict-housing, in order, on a body
\* that has every required field
HousingValidation(data) ==
    LET f == data.fields
    IN  IF ~InList(f["property_type"], valid_types)
        THEN Verdict("invalid", "Invalid property_type. Must be one of: "
                                \o Join(valid_types, ", "))
        ELSE IF ~InList(f["is_new"], <<"Y", "N">>)
        THEN Verdict("invalid", "Invalid is_new. Must be 'Y' or 'N'")
        ELSE IF ~InList(f["duration"], valid_durations)
        THEN Verdict("invalid", "Invalid duration. Must be one of: "
                                \o Join(valid_durations, ", "))
        ELSE IF InRange(f["year"], 1995, 2025) = "TypeError" THEN Verdict("TypeError", "")
        ELSE IF InRange(f["year"], 1995, 2025) = "out"
        THEN Verdict("invalid", "Year must be between 1995 and 2025")
        ELSE IF InRange(f["month"], 1, 12) = "TypeError" THEN Verdict("TypeError", "")
        ELSE IF InRange(f["month"], 1, 12) = "out"
        THEN Verdict("invalid", "Month must be between 1 and 12")
        ELSE Verdict("ok", "")

\* the keys of the dictionary predict_housing returns
HousingResultKeys ==
    {"price", "price_log", "confidence_lower", "confidence_upper", "model", "features_used"}

\* server.py:116-123: the answer after the predictor was called: 200 with the
\* result, 400 for a ValueError, 500 with details for any other exception
HousingAnswer(res) ==
    IF res.raised = ""
    THEN Response(200, HousingResultKeys, "", <<>>, "", res, NoElecResult, TRUE)
    ELSE IF res.raised = "ValueError"
    THEN Response(400, {"error"}, res.message, <<>>, "", res, NoElecResult, TRUE)
    ELSE Response(500, {"error", "details"}, "Internal server error", <<>>, res.message,
                  res, NoElecResult, TRUE)

\* an exception raised in the handler itself, before the predictor is called
HandlerCrash(error, details) ==
    Response(500, {"error", "details"}, error, <<>>, details, NoResult, NoElecResult, FALSE)

\* server.py:44-123: POST /predict-housing
route_predict_housing(p, data, out) ==
    IF ~Iterable(data) THEN HandlerCrash("Internal server error", "no usable JSON object")
    ELSE LET missing_fields == MissingFields(data, housing_required_fields)
             v == HousingValidation(data)
             f == data.fields
         IN  IF missing_fields # <<>>
             THEN MissingResponse(missing_fields, housing_required_fields)
             ELSE IF v.kind = "invalid" THEN BadRequest(v.error)
             ELSE IF v.kind = "TypeError"
             THEN HandlerCrash("Internal server error", "'<=' not supported")
             ELSE HousingAnswer(
                      predict_housing(p, HousingArgs(f["property_type"].s, f["is_new"].s,
                                                     f["duration"].s, f["county"],
                                                     f["year"].n, f["month"].n), out))

electricity_required_fields == <<"year", "month", "day">>

\* hour = data.get('hour', 12)
HourOf(data) == IF Has(data, "hour") THEN data.fields["hour"] ELSE JNum(12)

\* server.py:155-166: the range checks of /predict-electricity, in order
ElectricityValidation(data) ==
    LET f == data.fields
        hour == HourOf(data)
    IN  IF InRange(f["year"], 2020, 2030) = "TypeError" THEN Verdict("TypeError", "")
        ELSE IF InRange(f["year"], 2020, 2030) = "out"
        THEN Verdict("invalid", "Year must be between 2020 and 2030")
        ELSE IF InRange(f["month"], 1, 12) = "TypeError" THEN Verdict("TypeError", "")
        ELSE IF InRange(f["month"], 1, 12) = "out"
        THEN Verdict("invalid", "Month must be between 1 and 12")
        ELSE IF InRange(f["day"], 1, 31) = "TypeError" THEN Verdict("TypeError", "")
        ELSE IF InRange(f["day"], 1, 31) = "out"
        THEN Verdict("invalid", "Day must be between 1 and 31")
        ELSE IF InRange(hour, 0, 23) = "TypeError" THEN Verdict("TypeError", "")
        ELSE IF InRange(hour, 0, 23) = "out"
        THEN Verdict("invalid", "Hour must be between 0 and 23")
        ELSE Verdict("ok", "")

ElectricityResultKeys == {"demand_mw", "datetime", "model", "note"}

\* server.py:176-187: the answer after the predictor was called
ElectricityAnswer(res) ==
    IF res.raised = ""
    THEN Response(200, ElectricityResultKeys, "", <<>>, "", NoResult, res, TRUE)
    ELSE IF res.raised = "ValueError"
    THEN Response(400, {"error"}, res.message, <<>>, "", NoResult, res, TRUE)
    ELSE Response(500, {"error", "details"}, "Prediction failed", <<>>, res.message,
                  NoResult, res, TRUE)

\* server.py:126-187: POST /predict-electricity
route_predict_electricity(p, data, out) ==
    IF ~Iterable(data) THEN HandlerCrash("Prediction failed", "no usable JSON object")
    ELSE LET missing_fields == MissingFields(data, electricity_required_fields)
             v == ElectricityValidation(data)
             f == data.fields
         IN  IF missing_fields # <<>>
             THEN MissingResponse(missing_fields, electricity_required_fields)
             ELSE IF v.kind = "invalid" THEN BadRequest(v.error)
             ELSE IF v.kind = "TypeError"
             THEN HandlerCrash("Prediction failed", "'<=' not supported")
             ELSE ElectricityAnswer(
                      predict_electricity(p, f["year"].n, f["month"].n, f["day"].n,
                                          HourOf(data).n, out))

(***************************************************************************)
(* The status endpoints: GET /health and GET /models.                      *)
(***************************************************************************)
\* ModelPredictor.health_check
health_check(p) ==
    [housing_model_loaded     |-> p.housing_model.loaded,
     electricity_model_loaded |-> p.electricity_model.loaded,
     housing_model_type       |-> IF p.housing_model.loaded THEN "estimator" ELSE "None",
     model_name               |-> p.housing_model_name,
     metrics                  |-> p.housing_metrics,
     status                   |-> IF p.housing_model.loaded THEN "healthy" ELSE "degraded"]

NoHealth ==
    [housing_model_loaded |-> FALSE, electricity_model_loaded |-> FALSE,
     housing_model_type |-> "", model_name |-> "", metrics |-> NoMetrics, status |-> "",
     service |-> ""]

NoModels ==
    [housing |-> [status |-> "", endpoint |-> "", model_type |-> ""],
     electricity |-> [status |-> "", endpoint |-> ""]]

Info(endpoint, status, health, models) ==
    [endpoint |-> endpoint, status |-> status, health |-> health, models |-> models]

NoInfo == Info("none", 0, NoHealth, NoModels)

\* a plausible bug: the literal "status": "ok" written after **health_status
RouteHealthStatusOk(p) ==
    Info("/health", 200,
         [status |-> "ok", service |-> "ML Prediction Service"] @@ health_check(p),
         NoModels)

\* server.py:26-41: in {"status": "ok", "service": ..., **health_status} the
\* keys of health_status come last and win
route_health(p) ==
    Info("/health", 200,
         health_check(p) @@ [status |-> "ok", service |-> "ML Prediction Service"],
         NoModels)

Available(loaded) == IF loaded THEN "available" ELSE "unavailable"

\* server.py:190-206
list_models(p) ==
    LET health_status == health_check(p)
    IN  Info("/models", 200, NoHealth,
             [housing |-> [status |-> Available(health_status.housing_model_loaded),
                           endpoint |-> "/predict-housing",
                           model_type |-> health_status.housing_model_type],
              electricity |-> [status |-> Available(health_status.electricity_model_loaded),
                               endpoint |-> "/predict-electricity"]])

(***************************************************************************)
(* The service process: the module-level predictor of predict.py and the   *)
(* threads that call get_predictor.  An instance is named by its position  *)
(* in the sequence of the instances constructed so far; 0 is None.         *)
(***************************************************************************)
Threads == 1..MaxThreads

Thread(pc, made, ret, raised) == [pc |-> pc, made |-> made, ret |-> ret, raised |-> raised]

NoThread == Thread("start", 0, 0, "")

LastCall(op, inst, dt, housing, electricity, health) ==
    [op |-> op, inst |-> inst, dt |-> dt, housing |-> housing,
     electricity |-> electricity, health |-> health]

NoLast == LastCall("none", 0, NoDateTime, NoResult, NoElecResult, NoHealth)

NoProcess ==
    [global |-> 0, instances |-> <<>>, loads |-> 0, log |-> {},
     thread |-> [t \in Threads |-> NoThread], calls |-> 0, last |-> NoLast,
     served |-> {}, again |-> FALSE, dashboard |-> "idle"]

\* what _load_models writes to the log
load_log(housing, elecExists) ==
    (IF ~housing.exists THEN {"WARNING Housing model not found"}
     ELSE IF ~housing.isDict \/ "model" \notin housing.keys
     THEN {"ERROR Error loading models"}
     ELSE {"INFO Loaded housing model"})
    \cup (IF housing.exists /\ (~housing.isDict \/ "model" \notin housing.keys) THEN {}
          ELSE IF elecExists THEN {"INFO Loaded electricity model"}
          ELSE {"WARNING Electricity model not found"})

\* app.py:55-74: load_model returns the bundle or stops the page
load_model(housing) ==
    IF housing.exists /\ housing.isDict /\ "model" \in housing.keys THEN "ready" ELSE "stopped"

\* a plausible bug: alignment appends the missing columns to the shared list
PredictHousingGrowsFeatures(p, a, out) ==
    [p EXCEPT !.housing_features.cols = Append(@, "county_encoded")]

\* the instance after predict_housing: the method assigns no attribute of
\* self and only reads housing_features, housing_metrics and the encoder
predict_housing_self(p, a, out) == p

\* the instance after predict_electricity
predict_electricity_self(p, dt, out) == p

\* the instance after health_check
health_check_self(p) == p

\* get_predictor, line 249: if predictor is None
get_predictor_test(pr, t) ==
    [pr EXCEPT !.thread[t].pc = IF pr.global = 0 THEN "construct" ELSE "return"]

\* get_predictor, line 250, right-hand side: ModelPredictor() runs
\* _load_models; an exception leaves the call and no instance exists
get_predictor_construct(pr, t, housing, elecExists) ==
    LET r == load_models(housing, elecExists)
        counted == [pr EXCEPT !.loads = @ + 1, !.log = @ \cup load_log(housing, elecExists)]
    IN  IF r.raised # ""
        THEN [counted EXCEPT !.thread[t] = Thread("raised", 0, 0, r.raised)]
        ELSE [counted EXCEPT !.instances = Append(@, r.predictor),
                             !.thread[t] = Thread("store", Len(pr.instances) + 1, 0, "")]

\* get_predictor, line 250: the assignment to the global takes the new
\* instance off the thread's stack
get_predictor_store(pr, t) ==
    [pr EXCEPT !.global = pr.thread[t].made, !.thread[t] = Thread("return", 0, 0, "")]

\* get_predictor, line 251: return predictor
get_predictor_return(pr, t) ==
    [pr EXCEPT !.thread[t].ret = pr.global, !.thread[t].pc = "done"]

(***************************************************************************)
(* The forecast dashboards.  electricity_app.py asks the service for one   *)
(* hour at a time; eletricity_app.py predicts a whole date range with a    *)
(* locally loaded model.                                                   *)
(***************************************************************************)
Forecast(pc, start, hours, i, current_dt, results, calls, returned) ==
    [pc |-> pc, start |-> start, hours |-> hours, i |-> i, current_dt |-> current_dt,
     results |-> results, calls |-> calls, returned |-> returned]

IdleForecast == Forecast("idle", NoDateTime, 0, 0, NoDateTime, <<>>, <<>>, "none")

\* the JSON payload of predict_single_hour
HourPayload(dt) ==
    Body("object", [NoFields EXCEPT !["year"] = JNum(dt.year), !["month"] = JNum(dt.month),
                                    !["day"] = JNum(dt.day), !["hour"] = JNum(dt.hour)])

\* electricity_app.py:38-52: net is what the network does within the 5 s
\* timeout; raise_for_status turns every status >= 400 into None
predict_single_hour(p, dt, net, out) ==
    IF net # "ok" THEN [json |-> FALSE, response |-> NoResponse]
    ELSE LET r == route_predict_electricity(p, HourPayload(dt), out)
         IN  [json |-> r.status < 400, response |-> r]

\* a plausible bug: continue where break is meant, so a failed hour is skipped
\* and the loop goes on to the next one
ForecastStepContinues(f, result) ==
    LET good == result.json /\ "demand_mw" \in result.response.keys
        results == IF good
                   THEN Append(f.results,
                               [timestamp |-> f.current_dt,
                                demand_mw |-> result.response.electricity.demand_mw])
                   ELSE f.results
        over == f.i + 1 >= f.hours
    IN  Forecast(IF over THEN "done" ELSE "loop", f.start, f.hours, f.i + 1,
                 AddHour(f.current_dt), results,
                 Append(f.calls, [dt |-> f.current_dt, status |-> result.response.status,
                                  features |-> result.response.electricity.features]),
                 IF ~over THEN "none" ELSE IF results # <<>> THEN "frame" ELSE "None")

\* one pass of the loop of generate_forecast, with the return that follows
\* the loop's end
forecast_step(f, result) ==
    LET good == result.json /\ "demand_mw" \in result.response.keys
        results == IF good
                   THEN Append(f.results,
                               [timestamp |-> f.current_dt,
                                demand_mw |-> result.response.electricity.demand_mw])
                   ELSE f.results
        over == ~good \/ f.i + 1 >= f.hours
    IN  Forecast(IF over THEN "done" ELSE "loop", f.start, f.hours,
                 IF good THEN f.i + 1 ELSE f.i,
                 IF good THEN AddHour(f.current_dt) ELSE f.current_dt,
                 results,
                 Append(f.calls, [dt |-> f.current_dt, status |-> result.response.status,
                                  features |-> result.response.electricity.features]),
                 IF ~over THEN "none" ELSE IF results # <<>> THEN "frame" ELSE "None")

LocalForecast(pc, last_ts, n_hours, future, forecast) ==
    [pc |-> pc, last_ts |-> last_ts, n_hours |-> n_hours, future |-> future,
     forecast |-> forecast]

NoLocalForecast == LocalForecast("idle", NoDateTime, 0, <<>>, <<>>)

\* pd.date_range(start, periods=n, freq="H")
RECURSIVE date_range(_, _)
date_range(start, periods) ==
    IF periods = 0 THEN <<>> ELSE <<start>> \o date_range(AddHour(start), periods - 1)

\* eletricity_app.py:43-48: the feature frame of the local forecast
FutureFrame(future_ts) ==
    [k \in 1..Len(future_ts) |->
        [timestamp |-> future_ts[k], hour |-> future_ts[k].hour, day |-> future_ts[k].day,
         month |-> future_ts[k].month, weekday |-> Weekday(future_ts[k]),
         is_weekend |-> IF Weekday(future_ts[k]) >= 5 THEN 1 ELSE 0]]

\* eletricity_app.py:40-55: pred is what predict_model does with the frame,
\* the labels it returns or an exception
local_forecast(last_ts, n_hours, pred) ==
    LET future_ts == date_range(AddHour(last_ts), n_hours)
        future == FutureFrame(future_ts)
    IN  IF pred.raised THEN LocalForecast("crashed", last_ts, n_hours, future, <<>>)
        ELSE LocalForecast("done", last_ts, n_hours, future,
                           [k \in 1..Len(future) |->
                               [timestamp |-> future[k].timestamp, forecast_mw |-> pred.labels[k]]])

(***************************************************************************)
(* Sample inputs.                                                          *)
(***************************************************************************)
PropertyTypes == {"D", "S", "T", "F", "O"}

IsNewValues == {"Y", "N"}

Durations == {"F", "L", "U"}

Years == {2016}

Months == {1, 12}

\* counties as callers of the service spell them
ServiceCounties == {"KENT", "kent", "Kent ", "ATLANTIS"}

\* three of the dashboard's POPULAR_COUNTIES
DashboardCounties == {"KENT", "SURREY", "CORNWALL"}

ServiceArgs ==
    {HousingArgs(t, n, d, JStr(c), y, m) :
        t \in PropertyTypes, n \in IsNewValues, d \in Durations,
        c \in ServiceCounties, y \in Years, m \in Months}

\* what the dashboard's widgets can produce: tenure is Freehold or Leasehold
DashboardArgs ==
    {HousingArgs(t, n, d, JStr(c), y, m) :
        t \in PropertyTypes, n \in IsNewValues, d \in {"F", "L"},
        c \in DashboardCounties, y \in Years, m \in Months}

\* column names the short expected-column lists are drawn from: trained
\* columns, a reference column a bundle may have kept, and a column the
\* encoder never produces
ShortColumnNames == {"year", "county_encoded", "type_S", "type_D", "extra"}

RECURSIVE ListsOfLen(_)
ListsOfLen(k) ==
    IF k = 0 THEN {<<>>}
    ELSE {Append(l, c) : l \in ListsOfLen(k - 1), c \in ShortColumnNames}

Distinct(l) == \A i, j \in 1..Len(l) : i # j => l[i] # l[j]

\* feature_names of a bundle: a training frame's column list has no duplicates
ColumnLists ==
    {l \in UNION {ListsOfLen(k) : k \in 0..MaxCols} : Distinct(l)} \cup {TrainingColumns}

FeatureOptions == {NoFeatures} \cup {[present |-> TRUE, cols |-> l] : l \in ColumnLists}

EncBundles ==
    {HousingBundle({"model", "model_name"}
                   \cup (IF e.present THEN {"target_encoder"} ELSE {})
                   \cup (IF f.present THEN {"feature_names"} ELSE {})
                   \cup (IF m.has_mae THEN {"metrics"} ELSE {}),
                   e, f, m, "RandomForest") :
        e \in {NoEncoder} \cup Encoders, f \in FeatureOptions,
        m \in {NoMetrics, [has_mae |-> TRUE, test_mae |-> 2000000]}}

EncOutcomes == {Returned(12000), Raised("ValueError")}

(***************************************************************************)
(* SpecEnc: one call of the encoder on a loaded bundle, through the        *)
(* service's predict_housing or through the dashboard.  Neither path       *)
(* writes to the bundle, so one call per behaviour reaches every outcome.  *)
(***************************************************************************)
NoCall == [path |-> "none", args |-> NoArgs, res |-> NoResult]

InitEnc ==
    /\ disk \in {[housing |-> b, elecExists |-> FALSE] : b \in EncBundles}
    /\ predictor = load_models(disk.housing, disk.elecExists).predictor
    /\ enc = NoCall
    /\ request = NoRequest
    /\ response = NoResponse
    /\ fc = IdleForecast
    /\ local = NoLocalForecast
    /\ proc = NoProcess
    /\ info = NoInfo

CallPredictHousing ==
    /\ enc.path = "none"
    /\ \E a \in ServiceArgs, out \in EncOutcomes :
          enc' = [path |-> "service", args |-> a, res |-> predict_housing(predictor, a, out)]
    /\ UNCHANGED <<disk, predictor, request, response, fc, local, proc, info>>

CallDashboard ==
    /\ enc.path = "none"
    /\ \E a \in DashboardArgs, out \in EncOutcomes :
          enc' = [path |-> "dashboard", args |-> a,
                  res |-> dashboard_predict(DashboardGlobals(disk.housing), a, out)]
    /\ UNCHANGED <<disk, predictor, request, response, fc, local, proc, info>>

NextEnc == CallPredictHousing \/ CallDashboard

SpecEnc == InitEnc /\ [][NextEnc]_vars

(***************************************************************************)
(* SpecHttp: the server after start-up (server.py:23 built the predictor)  *)
(* answers one POST.  The handlers read the predictor and never write it,  *)
(* so one request per behaviour reaches every answer.                      *)
(***************************************************************************)
HousingBodies ==
    {Body("object",
          [NoFields EXCEPT !["property_type"] = pt, !["is_new"] = nw, !["duration"] = du,
                           !["county"] = co, !["year"] = yr, !["month"] = mo]) :
        pt \in {JAbsent, JStr("T"), JStr("D"), JStr("X"), JNum(5)},
        nw \in {JAbsent, JStr("N"), JStr("maybe")},
        du \in {JAbsent, JStr("F"), JStr("Q")},
        co \in {JAbsent, JStr("GREATER LONDON"), JStr("ATLANTIS"), JNum(7)},
        yr \in {JAbsent, JNum(2016), JNum(2025), JNum(1994), JNum(2026), JStr("2016"), JNull},
        mo \in {JAbsent, JNum(6), JNum(12), JNum(0), JNum(13), JStr("6")}}

ElectricityBodies ==
    {Body("object",
          [NoFields EXCEPT !["year"] = yr, !["month"] = mo, !["day"] = dy, !["hour"] = hr]) :
        yr \in {JAbsent, JNum(2025), JNum(2019), JNum(2031), JStr("2025")},
        mo \in {JAbsent, JNum(2), JNum(12), JNum(0), JNum(13), JStr("2")},
        dy \in {JAbsent, JNum(15), JNum(30), JNum(0), JNum(32), JStr("15")},
        hr \in {JAbsent, JNum(0), JNum(23), JNum(24), JNum(-1), JStr("12"), JNull}}

\* bodies that are no JSON object
OtherBodies == {Body(k, NoFields) : k \in {"absent", "null", "array", "number"}}

HttpBundles ==
    {NoFile,
     HousingBundle({"model"}, NoEncoder, NoFeatures, NoMetrics, "Unknown"),
     HousingBundle({"model", "target_encoder", "feature_names", "metrics", "model_name"},
                   [present |-> TRUE, kind |-> "strict", prior |-> 11],
                   [present |-> TRUE, cols |-> TrainingColumns],
                   [has_mae |-> TRUE, test_mae |-> 2000000], "RandomForest")}

InitHttp ==
    /\ disk \in {[housing |-> b, elecExists |-> e] : b \in HttpBundles, e \in BOOLEAN}
    /\ predictor = load_models(disk.housing, disk.elecExists).predictor
    /\ enc = NoCall
    /\ request = NoRequest
    /\ response = NoResponse
    /\ fc = IdleForecast
    /\ local = NoLocalForecast
    /\ proc = NoProcess
    /\ info = NoInfo

PostHousing ==
    /\ request.endpoint = "none"
    /\ \E data \in HousingBodies \cup OtherBodies, out \in ModelOutcomes :
          /\ request' = Request("/predict-housing", data)
          /\ response' = route_predict_housing(predictor, data, out)
    /\ UNCHANGED <<disk, predictor, enc, fc, local, proc, info>>

PostElectricity ==
    /\ request.endpoint = "none"
    /\ \E data \in ElectricityBodies \cup OtherBodies, out \in ElecOutcomes :
          /\ request' = Request("/predict-electricity", data)
          /\ response' = route_predict_electricity(predictor, data, out)
    /\ UNCHANGED <<disk, predictor, enc, fc, local, proc, info>>

\* server.py:26-41
GetHealth ==
    /\ request.endpoint = "none"
    /\ request' = Request("/health", Body("absent", NoFields))
    /\ info' = route_health(predictor)
    /\ UNCHANGED <<disk, predictor, enc, response, fc, local, proc>>

\* server.py:190-206
GetModels ==
    /\ request.endpoint = "none"
    /\ request' = Request("/models", Body("absent", NoFields))
    /\ info' = list_models(predictor)
    /\ UNCHANGED <<disk, predictor, enc, response, fc, local, proc>>

NextHttp == PostHousing \/ PostElectricity \/ GetHealth \/ GetModels

SpecHttp == InitHttp /\ [][NextHttp]_vars

(***************************************************************************)
(* SpecForecast: the two dashboards produce forecasts.                     *)
(***************************************************************************)
\* start date 2025-01-01..2030-12-31 and start hour 0..23 of the sidebar
ForecastStarts ==
    {DateTime(2025, 2, 28, 22), DateTime(2028, 2, 28, 23), DateTime(2025, 12, 31, 23),
     DateTime(2030, 12, 31, 22), DateTime(2026, 6, 15, 10)}

\* the last timestamp of the local dataset
LastStamps == {DateTime(2024, 2, 28, 22), DateTime(2023, 12, 31, 21)}

NetOutcomes == {"ok", "timeout"}

LocalLabels == {3120055, 4187310}

InitForecast ==
    /\ disk \in {[housing |-> NoFile, elecExists |-> e] : e \in BOOLEAN}
    /\ predictor = load_models(disk.housing, disk.elecExists).predictor
    /\ enc = NoCall
    /\ request = NoRequest
    /\ response = NoResponse
    /\ fc = IdleForecast
    /\ local = NoLocalForecast
    /\ proc = NoProcess
    /\ info = NoInfo

\* electricity_app.py:115-117 stops the page unless /health reports the model
StartForecast ==
    /\ fc.pc = "idle"
    /\ predictor.electricity_model.loaded
    /\ \E start \in ForecastStarts, hours \in 1..MaxHours :
          fc' = Forecast("loop", start, hours, 0, start, <<>>, <<>>, "none")
    /\ UNCHANGED <<disk, predictor, enc, request, response, local, proc, info>>

ForecastStep ==
    /\ fc.pc = "loop"
    /\ \E net \in NetOutcomes, out \in ElecOutcomes :
          LET result == predict_single_hour(predictor, fc.current_dt, net, out)
          IN  /\ fc' = forecast_step(fc, result)
              /\ request' = IF net = "ok"
                            THEN Request("/predict-electricity", HourPayload(fc.current_dt))
                            ELSE request
              /\ response' = IF net = "ok" THEN result.response ELSE response
    /\ UNCHANGED <<disk, predictor, enc, local, proc, info>>

RunLocalForecast ==
    /\ local.pc = "idle"
    /\ \E last_ts \in LastStamps, n_hours \in 1..MaxHours :
          \E pred \in {[raised |-> FALSE, labels |-> l] : l \in [1..n_hours -> LocalLabels]}
                       \cup {[raised |-> TRUE, labels |-> <<>>]} :
              local' = local_forecast(last_ts, n_hours, pred)
    /\ UNCHANGED <<disk, predictor, enc, request, response, fc, proc, info>>

NextForecast == StartForecast \/ ForecastStep \/ RunLocalForecast

SpecForecast == InitForecast /\ [][NextForecast]_vars

(***************************************************************************)
(* SpecProc: a process in which threads call get_predictor and then use    *)
(* the instance they were given; the dashboard loads the same artifact.    *)
(***************************************************************************)
\* a mapping that lacks the 'model' key
BundleWithoutModel ==
    HousingBundle({"feature_names", "model_name"}, NoEncoder,
                  [present |-> TRUE, cols |-> TrainingColumns], NoMetrics, "RandomForest")

ProcBundles == HttpBundles \cup {RawEstimator, BundleWithoutModel}

ProcArgs ==
    {HousingArgs("T", "N", "F", c, 2016, 6) : c \in {JStr("GREATER LONDON"), JNum(7)}}

ProcOutcomes == {Returned(12000), Raised("ValueError")}

ProcElecOutcomes == {Returned(3120055), Returned(4187310), Raised("KeyError")}

ProcDates == {DateTime(2025, 1, 18, 23), DateTime(2025, 2, 30, 0)}

InitProc ==
    /\ disk \in {[housing |-> b, elecExists |-> e] : b \in ProcBundles, e \in BOOLEAN}
    /\ predictor = EmptyPredictor
    /\ enc = NoCall
    /\ request = NoRequest
    /\ response = NoResponse
    /\ fc = IdleForecast
    /\ local = NoLocalForecast
    /\ proc = NoProcess
    /\ info = NoInfo

GetPredictorTest(t) ==
    /\ proc.thread[t].pc = "start"
    /\ proc' = get_predictor_test(proc, t)
    /\ UNCHANGED <<disk, predictor, enc, request, response, fc, local, info>>

GetPredictorConstruct(t) ==
    /\ proc.thread[t].pc = "construct"
    /\ proc' = get_predictor_construct(proc, t, disk.housing, disk.elecExists)
    /\ UNCHANGED <<disk, predictor, enc, request, response, fc, local, info>>

GetPredictorStore(t) ==
    /\ proc.thread[t].pc = "store"
    /\ proc' = get_predictor_store(proc, t)
    /\ UNCHANGED <<disk, predictor, enc, request, response, fc, local, info>>

GetPredictorReturn(t) ==
    /\ proc.thread[t].pc = "return"
    /\ proc' = get_predictor_return(proc, t)
    /\ UNCHANGED <<disk, predictor, enc, request, response, fc, local, info>>

\* the instances the finished get_predictor calls returned
Held == {proc.thread[t].ret : t \in {u \in Threads : proc.thread[u].pc = "done"}}

\* every get_predictor call is over and a caller holds an instance
CanCall ==
    /\ \A u \in Threads : proc.thread[u].pc \in {"done", "raised"}
    /\ proc.calls < MaxCalls

CallHousing ==
    /\ CanCall
    /\ \E i \in Held, a \in ProcArgs, out \in ProcOutcomes :
          LET self == proc.instances[i]
          IN  proc' = [proc EXCEPT
                         !.calls = @ + 1,
                         !.last = LastCall("predict_housing", i, NoDateTime,
                                           predict_housing(self, a, out), NoElecResult,
                                           NoHealth),
                         !.instances[i] = predict_housing_self(self, a, out)]
    /\ UNCHANGED <<disk, predictor, enc, request, response, fc, local, info>>

CallElectricity ==
    /\ CanCall
    /\ \E i \in Held, dt \in ProcDates, out \in ProcElecOutcomes :
          LET self == proc.instances[i]
              res == predict_electricity(self, dt.year, dt.month, dt.day, dt.hour, out)
          IN  proc' = [proc EXCEPT
                         !.calls = @ + 1,
                         !.last = LastCall("predict_electricity", i, dt, NoResult, res,
                                           NoHealth),
                         !.served = IF res.modelCalled
                                    THEN @ \cup {[dt |-> dt, features |-> res.features]}
                                    ELSE @,
                         !.again = @ \/ (res.modelCalled
                                          /\ \E x \in proc.served : x.dt = dt),
                         !.instances[i] = predict_electricity_self(self, dt, out)]
    /\ UNCHANGED <<disk, predictor, enc, request, response, fc, local, info>>

CallHealth ==
    /\ CanCall
    /\ \E i \in Held :
          LET self == proc.instances[i]
          IN  proc' = [proc EXCEPT
                         !.calls = @ + 1,
                         !.last = LastCall("health_check", i, NoDateTime, NoResult,
                                           NoElecResult,
                                           health_check(self) @@ [service |-> ""]),
                         !.instances[i] = health_check_self(self)]
    /\ UNCHANGED <<disk, predictor, enc, request, response, fc, local, info>>

\* app.py:76: bundle = load_model()
LoadDashboard ==
    /\ proc.dashboard = "idle"
    /\ proc' = [proc EXCEPT !.dashboard = load_model(disk.housing)]
    /\ UNCHANGED <<disk, predictor, enc, request, response, fc, local, info>>

NextProc ==
    \/ \E t \in Threads :
          \/ GetPredictorTest(t)
          \/ GetPredictorConstruct(t)
          \/ GetPredictorStore(t)
          \/ GetPredictorReturn(t)
    \/ CallHousing
    \/ CallElectricity
    \/ CallHealth
    \/ LoadDashboard

SpecProc == InitProc /\ [][NextProc]_vars

(***************************************************************************)
(* Properties of the encoder (SpecEnc).                                    *)
(***************************************************************************)
Called == enc.path # "none"

\* the expected column list and the encoder of the path that was called
EncFeatures ==
    IF enc.path = "dashboard" THEN DashboardGlobals(disk.housing).feature_names
    ELSE predictor.housing_features

EncEncoder ==
    IF enc.path = "dashboard" THEN DashboardGlobals(disk.housing).target_encoder
    ELSE predictor.housing_encoder

\* the county as the encoder sees it
EncCounty == Upper(enc.args.county.s)

\* what a column holds after encoding, stated without the frame operations:
\* the numeric inputs, the encoded county, 1 in the indicator of each
\* non-reference level the input has, and nothing (0 once aligned) elsewhere
EncodedValue(col, a, countyValue) ==
    CASE col = "year" -> a.year
      [] col = "month" -> a.month
      [] col = "quarter" -> Quarter(a.month)
      [] col = "county_encoded" -> countyValue
      [] col = "type_" \o a.property_type /\ a.property_type # "D" -> 1
      [] col = "is_new_" \o a.is_new /\ a.is_new # "N" -> 1
      [] col = "duration_" \o a.duration /\ a.duration # "F" -> 1
      [] OTHER -> 0

\* C1: with a non-empty expected column list, the row handed to the model
\* has exactly the expected columns in the expected order; an expected column
\* the encoding did not produce holds 0, and no other column is kept.
C1_RowHasExpectedColumns ==
    (Called /\ enc.res.modelCalled /\ EncFeatures.present /\ EncFeatures.cols # <<>>)
    => /\ ColumnNames(enc.res.row) = EncFeatures.cols
       /\ \A i \in 1..Len(EncFeatures.cols) :
             /\ ~enc.res.row[i].isText
             /\ enc.res.row[i].num =
                  EncodedValue(EncFeatures.cols[i], enc.args,
                               CellOf(enc.res.afterCounty, "county_encoded").num)

\* a terraced house on a two-column list: type_S is added as 0, year is kept
\* and moved behind it, every other encoded column is dropped
C1_Witness ==
    /\ enc.path = "service"
    /\ enc.res.modelCalled
    /\ enc.args.property_type = "T"
    /\ EncFeatures.present
    /\ EncFeatures.cols = <<"type_S", "year">>
    /\ enc.res.row = <<Cell("type_S", 0), Cell("year", enc.args.year)>>

\* the row the same path builds for the same input with the baseline type D
BaselineRow ==
    LET a == [enc.args EXCEPT !.property_type = "D"]
    IN  IF enc.path = "dashboard"
        THEN make_features(DashboardGlobals(disk.housing), a, Quarter(a.month)).row
        ELSE housing_row(predictor, a).row

TypeColumn == "type_" \o enc.args.property_type

Differing(r1, r2) == {i \in 1..Len(r1) : r1[i] # r2[i]}

NonBaselineCall ==
    Called /\ enc.res.modelCalled /\ enc.args.property_type \in {"S", "T", "F", "O"}

\* C2 as stated: for every bundle, the row of type X and the row of the
\* baseline D differ in exactly one column, type_X, which goes from 0 to 1.
C2_Original ==
    NonBaselineCall
    => /\ ColumnNames(enc.res.row) = ColumnNames(BaselineRow)
       /\ \E i \in 1..Len(enc.res.row) :
             /\ Differing(enc.res.row, BaselineRow) = {i}
             /\ enc.res.row[i].name = TypeColumn
             /\ BaselineRow[i].num = 0
             /\ enc.res.row[i].num = 1

\* C2 amended: when the expected list holds type_X, exactly that column
\* differs, 0 for D and 1 for X; when the list lacks type_X the two rows are
\* the same; with no expected list the X row is the D row plus the column
\* type_X = 1.  Every other column has the same value in both rows.
C2_OneIndicatorWhenExpected ==
    NonBaselineCall
    => IF EncFeatures.present
       THEN /\ ColumnNames(enc.res.row) = ColumnNames(BaselineRow)
            /\ IF TypeColumn \in Columns(enc.res.row)
               THEN \E i \in 1..Len(enc.res.row) :
                       /\ Differing(enc.res.row, BaselineRow) = {i}
                       /\ enc.res.row[i].name = TypeColumn
                       /\ BaselineRow[i].num = 0
                       /\ enc.res.row[i].num = 1
               ELSE enc.res.row = BaselineRow
       ELSE /\ TypeColumn \notin Columns(BaselineRow)
            /\ TypeColumn \in Columns(enc.res.row)
            /\ CellOf(enc.res.row, TypeColumn).num = 1
            /\ DropColumns(enc.res.row, {TypeColumn}) = BaselineRow

\* a semi-detached house on a list that holds type_S
C2_Witness ==
    /\ NonBaselineCall
    /\ enc.args.property_type = "S"
    /\ EncFeatures.present
    /\ EncFeatures.cols = <<"year", "type_S">>
    /\ enc.res.row = <<Cell("year", enc.args.year), Cell("type_S", 1)>>
    /\ BaselineRow = <<Cell("year", enc.args.year), Cell("type_S", 0)>>

\* the encoder has not seen the county, is absent, or fails
NoEncoding ==
    \/ ~EncEncoder.present
    \/ ~Seen(EncCounty)
    \/ EncoderTransform(EncEncoder, EncCounty).raised

EncoderCall == Called /\ enc.res.afterCounty # <<>>

\* C3 as stated: an unseen county (or no encoder, or a failing transform)
\* does not raise, county_encoded is 0.0, the raw county is removed and the
\* row has the full expected column list.
C3_Original ==
    (EncoderCall /\ NoEncoding)
    => /\ enc.res.raised # "Exception"
       /\ "county" \notin Columns(enc.res.afterCounty)
       /\ CellOf(enc.res.afterCounty, "county_encoded").num = 0
       /\ (EncFeatures.present => ColumnNames(enc.res.row) = EncFeatures.cols)

\* C3 amended: encoding never raises, the raw county is removed and the row
\* has the full expected column list; county_encoded is 0.0 when the encoder
\* is absent or its transform raises, and otherwise what transform returned,
\* also for a county the encoder has not seen.
C3_FallbackWhenTransformRaises ==
    EncoderCall
    => /\ enc.res.raised # "Exception"
       /\ enc.res.modelCalled
       /\ "county" \notin Columns(enc.res.afterCounty)
       /\ CellOf(enc.res.afterCounty, "county_encoded").num =
             (IF ~EncEncoder.present \/ EncoderTransform(EncEncoder, EncCounty).raised
              THEN 0
              ELSE EncoderTransform(EncEncoder, EncCounty).value)
       /\ (EncFeatures.present => ColumnNames(enc.res.row) = EncFeatures.cols)

\* an unseen county on an encoder that raises for it
C3_Witness ==
    /\ EncoderCall
    /\ EncEncoder.kind = "strict"
    /\ EncCounty = "ATLANTIS"
    /\ EncFeatures.present
    /\ EncFeatures.cols = <<"county_encoded", "year">>
    /\ enc.res.row = <<Cell("county_encoded", 0), Cell("year", enc.args.year)>>


(***************************************************************************)
(* Properties of the HTTP handlers (SpecHttp).                             *)
(***************************************************************************)
HousingPost == request.endpoint = "/predict-housing"

ElectricityPost == request.endpoint = "/predict-electricity"

ObjectBody == request.data.kind = "object"

Field(f) == request.data.fields[f]

Absent(f) == Field(f).t = "absent"

IsNumber(f) == Field(f).t = "num"

NumberIn(f, lo, hi) == IsNumber(f) /\ Field(f).n >= lo /\ Field(f).n <= hi

OneOf(f, values) == Field(f).t = "str" /\ Field(f).s \in values

HousingFieldSet == {"property_type", "is_new", "duration", "county", "year", "month"}

HousingComplete == HousingPost /\ ObjectBody /\ \A f \in HousingFieldSet : ~Absent(f)

ElectricityComplete ==
    ElectricityPost /\ ObjectBody /\ \A f \in {"year", "month", "day"} : ~Absent(f)

MissingInOrder ==
    SelectSeq(<<"property_type", "is_new", "duration", "county", "year", "month">>,
              LAMBDA f : Absent(f))

\* C4: a POST /predict-housing whose JSON object lacks one or more of the six
\* required fields is answered 400, the error message names every missing
\* field, the body carries the required_fields list, and the predictor is not
\* called.
C4_MissingFieldsRejected ==
    (HousingPost /\ ObjectBody /\ MissingInOrder # <<>>) =>
        /\ response.status = 400
        /\ response.keys = {"error", "required_fields"}
        /\ response.error = "Missing required fields: " \o Join(MissingInOrder, ", ")
        /\ response.required_fields =
               <<"property_type", "is_new", "duration", "county", "year", "month">>
        /\ ~response.predictorCalled
        /\ response.housing = NoResult

\* the request of test_service.py:77-84: only property_type and year are sent
C4_Witness ==
    /\ HousingPost /\ ObjectBody
    /\ MissingInOrder = <<"is_new", "duration", "county", "month">>
    /\ response.status = 400
    /\ response.error = "Missing required fields: is_new, duration, county, month"

\* the invalid values of a complete housing request whose year and month are
\* numbers, each with the message that states the valid values
HousingInvalidMessages ==
    (IF OneOf("property_type", {"D", "S", "T", "F", "O"}) THEN {}
     ELSE {"Invalid property_type. Must be one of: D, S, T, F, O"})
    \cup (IF OneOf("is_new", {"Y", "N"}) THEN {}
          ELSE {"Invalid is_new. Must be 'Y' or 'N'"})
    \cup (IF OneOf("duration", {"F", "L", "U"}) THEN {}
          ELSE {"Invalid duration. Must be one of: F, L, U"})
    \cup (IF NumberIn("year", 1995, 2025) THEN {}
          ELSE {"Year must be between 1995 and 2025"})
    \cup (IF NumberIn("month", 1, 12) THEN {} ELSE {"Month must be between 1 and 12"})

HourIsNumber == Absent("hour") \/ IsNumber("hour")

ElectricityInvalidMessages ==
    (IF NumberIn("year", 2020, 2030) THEN {} ELSE {"Year must be between 2020 and 2030"})
    \cup (IF NumberIn("month", 1, 12) THEN {} ELSE {"Month must be between 1 and 12"})
    \cup (IF NumberIn("day", 1, 31) THEN {} ELSE {"Day must be between 1 and 31"})
    \cup (IF Absent("hour") \/ NumberIn("hour", 0, 23) THEN {}
          ELSE {"Hour must be between 0 and 23"})

Rejected(messages) ==
    /\ response.status = 400
    /\ response.keys = {"error"}
    /\ response.error \in messages
    /\ ~response.predictorCalled
    /\ response.housing = NoResult
    /\ response.electricity = NoElecResult

HousingValid ==
    /\ HousingComplete
    /\ OneOf("property_type", {"D", "S", "T", "F", "O"})
    /\ OneOf("is_new", {"Y", "N"})
    /\ OneOf("duration", {"F", "L", "U"})
    /\ NumberIn("year", 1995, 2025)
    /\ NumberIn("month", 1, 12)

ElectricityValid ==
    /\ ElectricityComplete
    /\ NumberIn("year", 2020, 2030)
    /\ NumberIn("month", 1, 12)
    /\ NumberIn("day", 1, 31)
    /\ Absent("hour") \/ NumberIn("hour", 0, 23)

\* C6: every POST /predict-housing or /predict-electricity with missing or
\* invalid fields is answered 400 with an explicit error message, also when
\* the body is absent, null or no JSON object and when year, month, day or
\* hour is present but not a number.
C6_Original ==
    ((HousingPost /\ ~HousingValid) \/ (ElectricityPost /\ ~ElectricityValid)) =>
        /\ response.status = 400
        /\ "error" \in response.keys
        /\ response.error # ""

\* C7: whenever the predictor raises while serving a housing request that
\* passed validation, the handler answers 500 with the diagnostic detail
\* attached, never 400.
C7_Original ==
    (HousingPost /\ HousingValid /\ response.predictorCalled
     /\ response.housing.raised # "") =>
        /\ response.status = 500
        /\ "details" \in response.keys
        /\ response.details = response.housing.message

\* C8 as stated: every validated housing request with the model loaded is
\* answered 200 with the six result keys and price > 0.
C8_Original ==
    (HousingPost /\ HousingValid /\ predictor.housing_model.loaded) =>
        /\ response.status = 200
        /\ response.keys =
               {"price", "price_log", "confidence_lower", "confidence_upper", "model",
                "features_used"}
        /\ response.housing.price > 0

\* C8: a validated housing request with the model loaded whose county is a
\* string reaches the estimator; when the estimator returns, the answer is
\* 200 with the six result keys and price is expm1 of the log output (to the
\* penny): positive when the log output is at least 0.005, not positive when
\* the log output is 0 or less; when the prediction raises, the answer is
\* 400 or 500 with an error, never 200.
C8_ValidRequestAnswered ==
    (HousingPost /\ HousingValid /\ predictor.housing_model.loaded) =>
        /\ response.predictorCalled
        /\ response.housing.modelCalled <=> Field("county").t = "str"
        /\ response.housing.raised = "" <=> response.status = 200
        /\ response.status = 200 =>
              /\ response.housing.modelCalled
              /\ response.keys =
                     {"price", "price_log", "confidence_lower", "confidence_upper",
                      "model", "features_used"}
              /\ response.housing.price = Expm1Table[response.housing.price_log]
              /\ response.housing.price_log >= 5 => response.housing.price > 0
              /\ response.housing.price_log <= 0 => response.housing.price <= 0
        /\ response.status # 200 =>
              /\ response.status \in {400, 500}
              /\ "error" \in response.keys
              /\ response.error # ""

\* the request of test_service.py:23-31 answered by a model that returns 12.0
C8_Witness ==
    /\ HousingPost /\ HousingValid /\ predictor.housing_model.loaded
    /\ Field("property_type") = JStr("T") /\ Field("is_new") = JStr("N")
    /\ Field("duration") = JStr("F") /\ Field("county") = JStr("GREATER LONDON")
    /\ Field("year") = JNum(2016) /\ Field("month") = JNum(6)
    /\ response.status = 200
    /\ response.housing.price_log = 12000
    /\ response.housing.price = 16275379

(***************************************************************************)
(* Properties of the forecasts (SpecForecast).                             *)
(***************************************************************************)
\* the steps of the service-backed forecast in which the model was asked
ModelSteps == {k \in 1..Len(fc.calls) : fc.calls[k].status = 200}

LagNames == {"lag_1", "lag_24", "lag_168", "roll_24", "roll_168"}

\* C9 as stated: the lag and rolling features of step t+1 come from a history
\* that holds the prediction of step t, so lag_1 of step t+1 (in MW) is the
\* demand predicted for step t (in hundredths of a MW).
C9_Original ==
    \A k \in ModelSteps :
        k > 1 => fc.calls[k].features["lag_1"] * 100 = fc.results[k - 1].demand_mw

\* C9: no forecast feeds a prediction back.  Every step of the
\* service-backed forecast uses the calendar features of its own timestamp
\* and 35000 for each of lag_1, lag_24, lag_168, roll_24 and roll_168,
\* whatever was predicted before; predictions are only appended to the
\* results.  The local forecast uses calendar features alone.
C9_LagsAreConstants ==
    /\ \A k \in ModelSteps :
          /\ \A l \in LagNames : fc.calls[k].features[l] = 35000
          /\ fc.calls[k].features["hour"] = (fc.start.hour + k - 1) % 24
          /\ fc.calls[k].features["month"] = fc.calls[k].dt.month
          /\ fc.calls[k].features["is_weekend"] =
                 IF (ToOrdinal(fc.calls[k].dt.year, fc.calls[k].dt.month,
                               fc.calls[k].dt.day) + 6) % 7 >= 5 THEN 1 ELSE 0
          /\ fc.results[k].demand_mw \in {3120055, 4187310}
    /\ \A k \in 1..Len(local.future) :
          /\ DOMAIN local.future[k] =
                 {"timestamp", "hour", "day", "month", "weekday", "is_weekend"}
          /\ local.future[k].hour = (local.last_ts.hour + k) % 24

\* two steps answered with different demands, the second with the same lags
C9_Witness ==
    /\ fc.pc = "done"
    /\ Len(fc.results) >= 2
    /\ fc.results[1].demand_mw = 4187310
    /\ fc.results[2].demand_mw = 3120055
    /\ fc.calls[2].status = 200
    /\ fc.calls[2].features["lag_1"] = 35000

HourlyFrom(stamps, first) ==
    \A k \in 1..Len(stamps) : ToHours(stamps[k]) = ToHours(first) + k - 1

Stamps(rows) == [k \in 1..Len(rows) |-> rows[k].timestamp]

\* C10 as stated: a finished forecast over horizon h holds exactly h outputs,
\* the first stamped with the start, each later one an hour after the
\* previous.
C10_Original ==
    /\ fc.pc = "done" =>
          /\ Len(fc.results) = fc.hours
          /\ HourlyFrom(Stamps(fc.results), fc.start)
    /\ local.pc = "done" =>
          /\ Len(local.forecast) = local.n_hours
          /\ \A k \in 1..Len(local.forecast) :
                 ToHours(local.forecast[k].timestamp) = ToHours(local.last_ts) + k

\* C10: a forecast over horizon h holds at most h outputs: exactly h when
\* every hourly request was answered 200, otherwise the outputs before the
\* first request that failed.  The first output is stamped with the start of
\* the window, each later one exactly one hour after the previous.  The local
\* forecast that completes holds exactly h outputs, the first stamped one
\* hour after the last timestamp of the history.
C10_HourlyOutputs ==
    /\ Len(fc.results) <= fc.hours
    /\ Len(fc.results) = Cardinality(ModelSteps)
    /\ HourlyFrom(Stamps(fc.results), fc.start)
    /\ fc.pc = "done" =>
          /\ Len(fc.results) = fc.hours <=> ModelSteps = 1..Len(fc.calls)
          /\ \A k \in 1..Len(fc.calls) : k \notin ModelSteps => k = Len(fc.calls)
          /\ fc.returned = IF fc.results = <<>> THEN "None" ELSE "frame"
    /\ local.pc = "done" =>
          /\ Len(local.forecast) = local.n_hours
          /\ ToHours(local.forecast[1].timestamp) = ToHours(local.last_ts) + 1
          /\ HourlyFrom(Stamps(local.forecast), local.forecast[1].timestamp)

\* a forecast of three hours across the end of February 2025
C10_Witness ==
    /\ fc.pc = "done"
    /\ fc.start = DateTime(2025, 2, 28, 22)
    /\ fc.hours >= 3
    /\ Len(fc.results) = fc.hours
    /\ fc.results[3].timestamp = DateTime(2025, 3, 1, 0)

(***************************************************************************)
(* More properties of the encoder and of the price band (SpecEnc).         *)
(***************************************************************************)
\* the mean absolute error the called path works with, in pence
BandMae ==
    IF "metrics" \in disk.housing.keys /\ disk.housing.metrics.has_mae
    THEN disk.housing.metrics.test_mae
    ELSE IF enc.path = "dashboard" THEN 5000000 ELSE 12235300

\* C13: for every price estimate and bundle the reported band is
\* lower = max(1000, price - 2*mae) and upper = price + 2*mae, where mae is
\* metrics.test_mae when the bundle's metrics hold it and otherwise the
\* path's fixed fallback (122353 in the service, 50000 in the dashboard).
C13_BandFromMae ==
    (Called /\ enc.res.raised = "") =>
        /\ enc.res.confidence_upper = enc.res.price + 2 * BandMae
        /\ enc.res.confidence_lower >= 100000
        /\ enc.res.confidence_lower >= enc.res.price - 2 * BandMae
        /\ enc.res.confidence_lower \in {100000, enc.res.price - 2 * BandMae}

\* the service without metrics: the band of 162753.79 is clamped at 1000
C13_Witness ==
    /\ enc.path = "service" /\ enc.res.raised = ""
    /\ "metrics" \notin disk.housing.keys
    /\ enc.res.price = 16275379
    /\ enc.res.confidence_lower = 100000
    /\ enc.res.confidence_upper = 16275379 + 24470600

\* strip() and upper() on the sample strings of the model
TrimUpper(s) ==
    CASE s \in {"kent", "Kent ", "KENT"} -> "KENT"
      [] s \in {"Atlantis", "ATLANTIS"} -> "ATLANTIS"
      [] OTHER -> s

\* C16: the encoder trims and upper-cases every categorical string field, so
\* the row built for an input is the row built for the same input with its
\* county trimmed and upper-cased.
C16_Original ==
    (enc.path = "service" /\ enc.res.modelCalled) =>
        enc.res.row =
            housing_row(predictor,
                        [enc.args EXCEPT !.county = JStr(TrimUpper(enc.args.county.s))]).row

\* every indicator column of the known vocabulary
Vocabulary ==
    {"type_D", "type_S", "type_T", "type_F", "type_O", "is_new_Y", "is_new_N",
     "duration_F", "duration_L", "duration_U"}

\* the indicator columns of the values the input row holds
OwnIndicators(a) ==
    {"type_" \o a.property_type, "is_new_" \o a.is_new, "duration_" \o a.duration}

\* C17 as stated: for every input and bundle the row holds one indicator
\* column per value of the vocabulary, 1 for the input's values, 0 for the
\* others.
C17_Original ==
    (Called /\ enc.res.modelCalled) =>
        \A c \in Vocabulary :
            /\ c \in Columns(enc.res.row)
            /\ CellOf(enc.res.row, c).num = IF c \in OwnIndicators(enc.args) THEN 1 ELSE 0

\* C17: the expansion makes indicator columns only for the values of the
\* input row and then drops type_D, is_new_N and duration_F; the columns of
\* other values come from the alignment alone.  With an expected column list
\* the row holds exactly the vocabulary columns the list names: 1 for an own
\* value that is no reference value, 0 otherwise.  Without a list the row
\* holds only the columns of its own non-reference values, each 1.
C17_IndicatorsFromAlignment ==
    (Called /\ enc.res.modelCalled) =>
        LET own == OwnIndicators(enc.args) \ {"type_D", "is_new_N", "duration_F"}
            have == Columns(enc.res.row) \cap Vocabulary
        IN  /\ have = IF EncFeatures.present
                      THEN {EncFeatures.cols[i] : i \in 1..Len(EncFeatures.cols)}
                           \cap Vocabulary
                      ELSE own
            /\ \A c \in have : CellOf(enc.res.row, c).num = IF c \in own THEN 1 ELSE 0

\* a terraced house and a bundle without a list: type_T alone, no type_S
C17_Witness ==
    /\ Called /\ enc.res.modelCalled
    /\ ~EncFeatures.present
    /\ enc.args.property_type = "T" /\ enc.args.is_new = "N" /\ enc.args.duration = "F"
    /\ Columns(enc.res.row) \cap Vocabulary = {"type_T"}

(***************************************************************************)
(* Properties of loading and of the process (SpecProc).                    *)
(***************************************************************************)
MappingOnDisk == disk.housing.exists /\ disk.housing.isDict

HasModelKey == "model" \in disk.housing.keys

\* C11: loading a mapping without a 'model' key is fatal: every load raises,
\* no predictor instance exists or is published, no call returns one, and
\* the dashboard stops instead of going on with a default.
C11_MissingModelKeyIsFatal ==
    (MappingOnDisk /\ ~HasModelKey) =>
        /\ proc.global = 0
        /\ proc.instances = <<>>
        /\ \A t \in Threads :
              /\ proc.thread[t].ret = 0
              /\ proc.thread[t].pc \in {"start", "construct", "raised"}
              /\ proc.thread[t].pc = "raised" => proc.thread[t].raised = "KeyError"
        /\ proc.loads > 0 => "ERROR Error loading models" \in proc.log
        /\ proc.dashboard \in {"idle", "stopped"}
        /\ proc.calls = 0

C11_Witness ==
    /\ MappingOnDisk /\ ~HasModelKey
    /\ \A t \in Threads : proc.thread[t].pc = "raised"
    /\ proc.dashboard = "stopped"

\* C12 as stated: a raw estimator and a mapping with a 'model' key both
\* load, and a usable model is available afterwards.
C12_Original ==
    (disk.housing.exists /\ (~disk.housing.isDict \/ HasModelKey)) =>
        /\ \A t \in Threads : proc.thread[t].raised = ""
        /\ \A i \in 1..Len(proc.instances) : proc.instances[i].housing_model.loaded
        /\ proc.dashboard \in {"idle", "ready"}

\* C12: loading accepts the mapping shape only.  A mapping with a 'model'
\* key loads, with each companion it lacks at its default (no encoder, no
\* column list, empty metrics, name "Unknown"), and the model is available
\* afterwards; a raw estimator object is rejected: the service's load raises
\* TypeError and the dashboard stops.
C12_OnlyMappingLoads ==
    /\ (MappingOnDisk /\ HasModelKey) =>
          /\ \A t \in Threads : proc.thread[t].raised = ""
          /\ proc.loads = Len(proc.instances)
          /\ \A i \in 1..Len(proc.instances) :
                LET p == proc.instances[i]
                IN  /\ p.housing_model.loaded
                    /\ "target_encoder" \notin disk.housing.keys =>
                           p.housing_encoder = NoEncoder
                    /\ "feature_names" \notin disk.housing.keys =>
                           p.housing_features = NoFeatures
                    /\ "metrics" \notin disk.housing.keys => p.housing_metrics = NoMetrics
                    /\ "model_name" \notin disk.housing.keys =>
                           p.housing_model_name = "Unknown"
                    /\ "feature_names" \in disk.housing.keys =>
                           p.housing_features = disk.housing.feature_names
          /\ proc.dashboard \in {"idle", "ready"}
    /\ (disk.housing.exists /\ ~disk.housing.isDict) =>
          /\ \A t \in Threads :
                /\ proc.thread[t].pc \in {"start", "construct", "raised"}
                /\ proc.thread[t].pc = "raised" => proc.thread[t].raised = "TypeError"
          /\ proc.instances = <<>>
          /\ proc.global = 0
          /\ proc.dashboard \in {"idle", "stopped"}

\* both shapes were tried: the raw estimator is on disk and was refused
C12_Witness ==
    /\ disk.housing.exists /\ ~disk.housing.isDict
    /\ \E t \in Threads : proc.thread[t].raised = "TypeError"
    /\ proc.dashboard = "stopped"

\* C15: with no housing artifact file the load reports it and every later
\* predict_housing call is refused with "Housing model not loaded" before a
\* feature row is built or the model is called; the dashboard stops.
C15_MissingFileRefusesHousing ==
    ~disk.housing.exists =>
        /\ proc.loads > 0 => "WARNING Housing model not found" \in proc.log
        /\ \A i \in 1..Len(proc.instances) : ~proc.instances[i].housing_model.loaded
        /\ proc.last.op = "predict_housing" =>
              /\ proc.last.housing.raised = "ValueError"
              /\ proc.last.housing.message = "Housing model not loaded"
              /\ ~proc.last.housing.modelCalled
              /\ proc.last.housing.afterCounty = <<>>
              /\ proc.last.housing.row = <<>>
        /\ proc.dashboard \in {"idle", "stopped"}

\* the last of several calls is a refused predict_housing
C15_Witness ==
    /\ ~disk.housing.exists
    /\ proc.calls = MaxCalls
    /\ proc.last.op = "predict_housing"
    /\ proc.last.housing.message = "Housing model not loaded"

C19_Original ==
    /\ proc.loads <= 1
    /\ \A t, u \in Threads :
          (proc.thread[t].pc = "done" /\ proc.thread[u].pc = "done") =>
              proc.thread[t].ret = proc.thread[u].ret

\* C20: the service's electricity features depend on the requested
\* timestamp alone: the calendar features of that timestamp and 35000 for
\* every lag and rolling feature, the same for the same timestamp whatever
\* was served in between; with the model loaded and a valid date the
\* estimator is always reached.
C20_ElectricityStateless ==
    /\ \A x, y \in proc.served : x.dt = y.dt => x.features = y.features
    /\ \A x \in proc.served :
          /\ \A l \in LagNames : x.features[l] = 35000
          /\ x.features["hour"] = x.dt.hour
          /\ x.features["month"] = x.dt.month
          /\ x.features["day_of_week"] =
                 (ToOrdinal(x.dt.year, x.dt.month, x.dt.day) + 6) % 7
    /\ proc.last.op = "predict_electricity" =>
          /\ proc.last.electricity.modelCalled <=>
                 /\ proc.instances[proc.last.inst].electricity_model.loaded
                 /\ proc.last.dt.day <= DaysInMonth(proc.last.dt.year, proc.last.dt.month)
          /\ proc.last.electricity.modelCalled =>
                 [dt |-> proc.last.dt, features |-> proc.last.electricity.features]
                     \in proc.served

\* the same timestamp served again after another prediction
C20_Witness ==
    /\ proc.calls = MaxCalls
    /\ proc.last.op = "predict_electricity"
    /\ proc.last.electricity.raised = ""
    /\ proc.last.electricity.demand_mw = 3120055
    /\ proc.again
    /\ Cardinality(proc.served) = 1

EncOutcome == IF enc.res.raised = "" THEN Returned(enc.res.price_log) ELSE Raised(enc.res.raised)

\* the same bundle, inputs and estimator outcome on each path
OnService == predict_housing(predictor, enc.args, EncOutcome)

OnDashboard == dashboard_predict(DashboardGlobals(disk.housing), enc.args, EncOutcome)

\* inputs both paths accept, in a call that reached the estimator
BothPaths == Called /\ enc.args \in ServiceArgs \cap DashboardArgs /\ enc.res.modelCalled

\* the part of C21 about the row: both paths hand the estimator the same row
SameRow == BothPaths => OnService.row = OnDashboard.row

\* C21: for the same bundle and the same raw inputs the dashboard path and
\* the service path hand the model the same row and report the same lower
\* and upper bounds for the same model output.
C21_Original ==
    BothPaths =>
        /\ OnService.row = OnDashboard.row
        /\ OnService.raised = OnDashboard.raised
        /\ OnService.confidence_lower = OnDashboard.confidence_lower
        /\ OnService.confidence_upper = OnDashboard.confidence_upper

(***************************************************************************)
(* The point estimate and its band (SpecHttp).                             *)
(***************************************************************************)
\* a housing request that predict_housing answered with a result
HousingResult == HousingPost /\ response.status = 200 /\ response.housing.raised = ""

\* C22 as stated: in every result returned by predict_housing the point
\* estimate lies inside its own band, confidence_lower <= price <=
\* confidence_upper.
C22_Original ==
    HousingResult =>
        /\ response.housing.confidence_lower <= response.housing.price
        /\ response.housing.price <= response.housing.confidence_upper

\* C22: in every result returned by predict_housing, price <=
\* confidence_upper and confidence_lower >= 1000; the point estimate is at or
\* above the lower bound exactly when it is at least 1000, and for a point
\* estimate below 1000 the lower bound is the floor 1000, above the estimate.
C22_EstimateInBandAboveFloor ==
    HousingResult =>
        /\ response.housing.price <= response.housing.confidence_upper
        /\ response.housing.confidence_lower >= 1000 * 100
        /\ response.housing.confidence_lower <= response.housing.price
              <=> response.housing.price >= 1000 * 100
        /\ response.housing.price < 1000 * 100
              => response.housing.confidence_lower = 1000 * 100

\* a model output of 0.0: the estimate 0.00 lies under its lower bound 1000.00
C22_Witness ==
    /\ HousingResult
    /\ response.housing.price_log = 0
    /\ response.housing.price = 0
    /\ response.housing.confidence_lower = 1000 * 100
    /\ response.housing.confidence_upper = 2 * mae_default * 100

\* the band around 162753.79 with test_mae 20000: the floor is not active
C22_InsideBand ==
    /\ HousingResult
    /\ response.housing.price = 16275379
    /\ response.housing.confidence_lower = 16275379 - 4000000
    /\ response.housing.confidence_upper = 16275379 + 4000000

(***************************************************************************)
(* The forecast loop after a failed hour (SpecForecast).                   *)
(***************************************************************************)
\* the requests of the forecast that got no demand_mw: no answer within the
\* timeout, or an answer with a status of 400 or more
FailedSteps == {j \in 1..Len(fc.calls) : fc.calls[j].status # 200}

\* the results are the outputs of the first n requests, one hour apart from
\* the start timestamp
FirstOutputs(n) ==
    /\ Len(fc.results) = n
    /\ \A j \in 1..n :
          /\ fc.calls[j].status = 200
          /\ fc.results[j].timestamp = fc.calls[j].dt
          /\ ToHours(fc.results[j].timestamp) = ToHours(fc.start) + (j - 1)

\* C23: in generate_forecast, if the call for step k (0-based) is the first
\* to fail or to return no demand_mw, the loop stops at once: no request is
\* made for any later hour, and the returned series is exactly the k outputs
\* of the hours before it, contiguous from the start timestamp (no result at
\* all when k = 0); a later success never follows a failed hour.
C23_StopsAtFirstFailure ==
    /\ [](\A j \in FailedSteps :
             /\ j = Len(fc.calls)
             /\ fc.pc = "done"
             /\ FirstOutputs(j - 1)
             /\ fc.returned = IF j = 1 THEN "None" ELSE "frame")
    /\ [][FailedSteps # {} => (fc' = fc /\ request' = request)]_vars

\* two hours answered, the third request failed: a frame of two rows
C23_Witness ==
    /\ fc.pc = "done" /\ fc.hours = 3
    /\ Len(fc.calls) = 3 /\ FailedSteps = {3}
    /\ Len(fc.results) = 2
    /\ fc.returned = "frame"

\* the first request failed: nothing is returned
C23_FirstFails ==
    /\ fc.pc = "done" /\ fc.hours = 3
    /\ FailedSteps = {1} /\ fc.results = <<>> /\ fc.returned = "None"
=============================================================================
